---------------------------- MODULE Spec2Model ----------------------------
(***************************************************************************)
(* A model of telegram_card_bot.py: the two pure helpers                   *)
(* (extract_matching_cards, read_card_numbers_from_file), the handlers     *)
(* registered on the Application, the process-wide map user_contexts and   *)
(* the files the handlers create in the working directory.                 *)
(*                                                                         *)
(* Text is a sequence of one-character strings.  Spec is the bot with one  *)
(* webhook request handled at a time; ConcSpec is the bot with two webhook *)
(* threads; FnSpec applies the pure helpers, and StatsSpec the prefix      *)
(* statistics of stats_command, to every input within the bounds.          *)
(***************************************************************************)
EXTENDS Naturals, Sequences, FiniteSets, TLC

VARIABLES
    user_contexts,  \* the dict user_contexts: user_id -> {'prefix', 'waiting_for_file'}
    disk,           \* the files of the working directory: path -> file
    task,           \* per webhook thread: the handler's position and locals
    last_search,    \* history: the prefix of each actor's latest /search <prefix>
    superseded,     \* history: whether the latest /search <prefix> overwrote another prefix
    consumed,       \* history: whether an upload has read the actor's latest /search <prefix>
    fn              \* the pure helpers applied to drawn inputs (FnSpec)

vars == <<user_contexts, disk, task, last_search, superseded, consumed, fn>>

---------------------------------------------------------------------------
(* Bounds of the model *)

\* longest file content drawn for the pure helpers
MaxPayloadLen == 4

\* longest prefix drawn for the pure helpers
MaxPrefixLen == 2

\* longest record list drawn for the prefix statistics
MaxRecords == 5

\* the prefix statistics at a small scale: how many records are analysed,
\* how many characters make a prefix, how many prefixes are listed
SmallLimit == 4

SmallWidth == 2

SmallTop == 2

---------------------------------------------------------------------------
(* Text *)

\* characters of the model: two letters that differ only in case, a blank,
\* and the two line-break characters
Chars == {"a", "A", " ", "\n", "\r"}

\* what str.strip() removes
Whitespace == {" ", "\t", "\n", "\r"}

\* where str.splitlines() breaks a line
LineBreaks == {"\n", "\r"}

SeqsUpTo(S, n) == UNION {[1..k -> S] : k \in 0..n}

Texts == SeqsUpTo(Chars, MaxPayloadLen)

\* a file: bytes that decode to text, or bytes that do not
TextFile(text) == [decodable |-> TRUE, text |-> text]

UndecodableFile == [decodable |-> FALSE, text |-> <<>>]

\* a variant of startswith that takes no empty prefix
startswith_nonempty(card, prefix) ==
    /\ prefix # <<>>
    /\ Len(prefix) <= Len(card)
    /\ SubSeq(card, 1, Len(prefix)) = prefix

\* str.startswith
startswith(card, prefix) ==
    /\ Len(prefix) <= Len(card)
    /\ SubSeq(card, 1, Len(prefix)) = prefix

\* prefix in card
contains(card, prefix) ==
    \E i \in 0..(Len(card) - Len(prefix)) : SubSeq(card, i + 1, i + Len(prefix)) = prefix

\* a variant of extract_matching_cards that matches anywhere in the card
extract_containing_cards(card_numbers, prefix) ==
    SelectSeq(card_numbers, LAMBDA card : Len(prefix) <= Len(card) /\ contains(card, prefix))

\* a variant of extract_matching_cards that returns the matching cards
\* without the prefix
extract_card_remainders(card_numbers, prefix) ==
    LET matching == SelectSeq(card_numbers, LAMBDA card : startswith(card, prefix)) IN
    [i \in 1..Len(matching) |-> SubSeq(matching[i], Len(prefix) + 1, Len(matching[i]))]

\* a list comprehension with startswith
extract_matching_cards(card_numbers, prefix) ==
    SelectSeq(card_numbers, LAMBDA card : startswith(card, prefix))

\* open(path, 'r').read(): universal newlines, "\r\n" and "\r" become "\n"
RECURSIVE translate_newlines(_)
translate_newlines(s) ==
    IF s = <<>> THEN <<>>
    ELSE IF Head(s) = "\r"
         THEN IF Len(s) >= 2 /\ s[2] = "\n"
              THEN <<"\n">> \o translate_newlines(SubSeq(s, 3, Len(s)))
              ELSE <<"\n">> \o translate_newlines(Tail(s))
         ELSE <<Head(s)>> \o translate_newlines(Tail(s))

\* str.splitlines(): a line break ends the current line, "\r\n" is one break,
\* and what follows the last break is a line only when it is not empty
RECURSIVE splitlines_from(_, _)
splitlines_from(s, cur) ==
    IF s = <<>> THEN (IF cur = <<>> THEN <<>> ELSE <<cur>>)
    ELSE IF Head(s) \in LineBreaks
         THEN IF Head(s) = "\r" /\ Len(s) >= 2 /\ s[2] = "\n"
              THEN <<cur>> \o splitlines_from(SubSeq(s, 3, Len(s)), <<>>)
              ELSE <<cur>> \o splitlines_from(Tail(s), <<>>)
         ELSE splitlines_from(Tail(s), Append(cur, Head(s)))

splitlines(s) == splitlines_from(s, <<>>)

RECURSIVE lstrip(_)
lstrip(s) ==
    IF s # <<>> /\ Head(s) \in Whitespace THEN lstrip(Tail(s)) ELSE s

RECURSIVE rstrip(_)
rstrip(s) ==
    IF s # <<>> /\ s[Len(s)] \in Whitespace
    THEN rstrip(SubSeq(s, 1, Len(s) - 1))
    ELSE s

\* a variant of strip that leaves trailing whitespace
strip_left_only(s) == lstrip(s)

\* str.strip()
strip(s) == rstrip(lstrip(s))

\* [card.strip() for card in card_numbers if card.strip()]
RECURSIVE strip_nonblank(_)
strip_nonblank(lines) ==
    IF lines = <<>> THEN <<>>
    ELSE IF strip(Head(lines)) # <<>>
         THEN <<strip(Head(lines))>> \o strip_nonblank(Tail(lines))
         ELSE strip_nonblank(Tail(lines))

\* the outcome of a call: what it returned, or the exception it raised
Returned(value) == [raised |-> "", value |-> value]

Raised(exception) == [raised |-> exception, value |-> <<>>]

\* a variant of read_card_numbers_from_file without the except clause
read_card_numbers_uncaught(files, file_path) ==
    IF file_path \notin DOMAIN files THEN Raised("FileNotFoundError")
    ELSE IF ~files[file_path].decodable THEN Raised("UnicodeDecodeError")
    ELSE Returned(strip_nonblank(splitlines(translate_newlines(files[file_path].text))))

\* read_card_numbers_from_file on the files `files`: a missing file is an
\* empty list; bytes that do not decode raise out of the function
read_card_numbers_from_file(files, file_path) ==
    IF file_path \notin DOMAIN files THEN Returned(<<>>)
    ELSE IF ~files[file_path].decodable THEN Raised("UnicodeDecodeError")
    ELSE Returned(strip_nonblank(splitlines(translate_newlines(files[file_path].text))))

\* a variant of write_cards that writes no newline
RECURSIVE write_cards_unterminated(_)
write_cards_unterminated(cards) ==
    IF cards = <<>> THEN <<>>
    ELSE Head(cards) \o write_cards_unterminated(Tail(cards))

\* for card in matching_cards: f.write(card + '\n')
RECURSIVE write_cards(_)
write_cards(cards) ==
    IF cards = <<>> THEN <<>>
    ELSE Head(cards) \o <<"\n">> \o write_cards(Tail(cards))

\* paths in the working directory
CardDatabasePath == <<"card_numbers.txt">>

TempPath(user_id) == <<"temp_cards", user_id>>

ResultsPath(prefix, count) == <<"cards", prefix, count, "results">>

\* open(path, 'w') ... write: the file is created or replaced
WriteFile(files, path, file) ==
    [p \in DOMAIN files \cup {path} |-> IF p = path THEN file ELSE files[p]]

\* os.remove(path) of an existing file
RemoveFile(files, path) == [p \in DOMAIN files \ {path} |-> files[p]]

NoFiles == [p \in {} |-> UndecodableFile]

---------------------------------------------------------------------------
(* The prefix statistics of stats_command *)

\* card_numbers[:5000]
AnalysisLimit == 5000

\* len(card) >= 4 and card[:4]
StatsPrefixLen == 4

\* sorted(...)[:10]
TopCount == 10

\* s[:n]
Slice(s, n) == SubSeq(s, 1, IF Len(s) < n THEN Len(s) ELSE n)

\* prefix_counts[prefix] = prefix_counts.get(prefix, 0) + 1 on a dict, kept
\* as its items <<key, value>> in insertion order: a key that is present
\* keeps its place, a new key goes last
RECURSIVE count_prefix(_, _)
count_prefix(items, prefix) ==
    IF items = <<>> THEN << <<prefix, 1>> >>
    ELSE IF Head(items)[1] = prefix
         THEN << <<prefix, Head(items)[2] + 1>> >> \o Tail(items)
         ELSE <<Head(items)>> \o count_prefix(Tail(items), prefix)

\* the loop over the cards: a card of `width` characters or more counts
\* for its first `width` characters
RECURSIVE prefix_counts(_, _, _)
prefix_counts(card_numbers, width, items) ==
    IF card_numbers = <<>> THEN items
    ELSE prefix_counts(Tail(card_numbers), width,
                       IF Len(Head(card_numbers)) >= width
                       THEN count_prefix(items, SubSeq(Head(card_numbers), 1, width))
                       ELSE items)

\* a variant of insert_by_count that puts an item before the items of its count
RECURSIVE insert_before_equal(_, _)
insert_before_equal(sorted, item) ==
    IF sorted = <<>> THEN <<item>>
    ELSE IF Head(sorted)[2] > item[2]
         THEN <<Head(sorted)>> \o insert_before_equal(Tail(sorted), item)
         ELSE <<item>> \o sorted

\* where a stable descending sort puts the next item: after every item
\* whose count is its own or more
RECURSIVE insert_by_count(_, _)
insert_by_count(sorted, item) ==
    IF sorted = <<>> THEN <<item>>
    ELSE IF Head(sorted)[2] >= item[2]
         THEN <<Head(sorted)>> \o insert_by_count(Tail(sorted), item)
         ELSE <<item>> \o sorted

\* sorted(items, key=lambda x: x[1], reverse=True): descending by count,
\* items of equal count in their order in `items`
RECURSIVE sorted_by_count(_)
sorted_by_count(items) ==
    IF items = <<>> THEN <<>>
    ELSE insert_by_count(sorted_by_count(SubSeq(items, 1, Len(items) - 1)),
                         items[Len(items)])

\* lines 113-120 with their three literals as parameters
top_prefixes(card_numbers, limit, width, top) ==
    Slice(sorted_by_count(prefix_counts(Slice(card_numbers, limit), width, <<>>)), top)

\* lines 113-120 as written
prefix_statistics(card_numbers) ==
    top_prefixes(card_numbers, AnalysisLimit, StatsPrefixLen, TopCount)

---------------------------------------------------------------------------
(* Telegram: messages sent with parse_mode=ParseMode.MARKDOWN_V2 *)

\* the character ` (which a TLA+ string cannot hold)
Backquote == "backquote"

\* characters MarkdownV2 reserves: outside an entity each must be escaped
\* with a preceding backslash, or the Bot API answers 400 Bad Request
MarkdownV2Reserved ==
    {"_", "*", "[", "]", "(", ")", "~", Backquote, ">", "#", "+", "-", "=", "|",
     "{", "}", ".", "!"}

\* whether the Bot API accepts `text` as MarkdownV2: a backquote opens and closes
\* inline code, "*" opens and closes bold, a backslash escapes the next
\* character, and any other reserved character must be escaped
RECURSIVE MarkdownV2Scan(_, _, _)
MarkdownV2Scan(text, in_code, in_bold) ==
    IF text = <<>> THEN ~in_code /\ ~in_bold
    ELSE IF Head(text) = "\\"
         THEN Len(text) >= 2 /\ MarkdownV2Scan(SubSeq(text, 3, Len(text)), in_code, in_bold)
    ELSE IF in_code THEN MarkdownV2Scan(Tail(text), Head(text) # Backquote, in_bold)
    ELSE IF Head(text) = Backquote THEN MarkdownV2Scan(Tail(text), TRUE, in_bold)
    ELSE IF Head(text) = "*" THEN MarkdownV2Scan(Tail(text), FALSE, ~in_bold)
    ELSE IF Head(text) \in MarkdownV2Reserved THEN FALSE
    ELSE MarkdownV2Scan(Tail(text), FALSE, in_bold)

MarkdownV2Valid(text) == MarkdownV2Scan(text, FALSE, FALSE)

\* The message literals, reduced to the characters MarkdownV2 gives a
\* meaning, in the order of the literal: "x" stands for a run of text with
\* no reserved character, "1" for a number formatted with {:,}.

\* "No cards found starting with prefix: `{prefix}` ... Total cards
\* processed: `{n:,}` ... check your search term."
NoMatchText(prefix) ==
    <<"x", Backquote>> \o prefix \o <<Backquote, "x", Backquote, "1", Backquote, "x", ".">>

\* "*File uploaded successfully!* ... *Statistics:* ... `{n:,}` ...
\* `{n:,} bytes` ... Use `/search <prefix>` to find specific cards!"
UploadedText ==
    <<"*", "x", "!", "*", "x", "*", "x", "*", "x", Backquote, "1", Backquote, "x",
      Backquote, "1", "x", Backquote, "x", Backquote, "x", "<", "x", ">", Backquote, "x", "!">>

\* "*How to use this bot:* ... 1\. Use `/search <prefix>` ... *Commands:*
\* ... `/start` - Start the bot ... text file\."
HelpText ==
    <<"*", "x", "*", "x", "\\", ".", "x", Backquote, "x", "<", "x", ">", Backquote,
      "x", "*", "x", "*", "x", Backquote, "x", Backquote, "x", "-", "x", "\\", ".">>

\* "*Database Statistics*" ... `{n:,}` ... `{n}` ... "*Top 10 Prefixes:*",
\* then "`{i:2d}. {prefix}` - {count:,} cards" when a prefix was counted,
\* then "Use `/search <prefix>` ..."
StatsText(card_numbers) ==
    <<"*", "x", "*", "x", Backquote, "1", Backquote, "x", Backquote, "1", Backquote,
      "x", "*", "x", "*">>
    \o (IF prefix_statistics(card_numbers) # <<>>
        THEN <<Backquote, "1", ".", "x", Backquote, "x", "-", "x", "1", "x">>
        ELSE <<>>)
    \o <<"x", Backquote, "x", "<", "x", ">", Backquote, "x">>

---------------------------------------------------------------------------
(* The bot *)

\* actors (update.effective_user.id)
Users == {"u1", "u2"}

\* webhook threads; Spec handles one request at a time, on the first
Threads == {"w1", "w2"}

SerialThreads == {"w1"}

\* if document.file_size > 10 * 1024 * 1024
MaxFileSize == 10 * 1024 * 1024

\* declared attributes of an uploaded document
Documents == [txt : BOOLEAN, file_size : {MaxFileSize, MaxFileSize + 1}]

NoDocument == [txt |-> FALSE, file_size |-> 0]

\* context.args of a /search command: nothing, or tokens of which the
\* first is the prefix
SearchPrefixes == {<<"a">>, <<"A">>}

SearchArgs == {<<>>} \cup {<<p>> : p \in SearchPrefixes}

\* what download_to_drive may store: text, or bytes that do not decode
Uploads ==
    {TextFile(text) : text \in
        {<<>>, <<" ", "\n">>, <<"a", "\n">>, <<"a", "a", "\r", "\n", "A">>}}
    \cup {UndecodableFile}

\* a message shown to the actor: its kind and the fields the text carries
Reply(kind, prefix, total) == [kind |-> kind, prefix |-> prefix, total |-> total]

NoReply == Reply("", <<>>, 0)

IdleTask ==
    [pc |-> "idle", handler |-> "", user_id |-> "u1", args |-> <<>>,
     document |-> NoDocument, card_numbers |-> <<>>, prefix |-> <<>>,
     matching_cards |-> <<>>, exc |-> "", reply |-> NoReply,
     sent_document |-> <<>>, response |-> "", awaiting |-> FALSE]

\* webhook: the update is routed to its handler, in a fresh call
Dispatch(handler, user_id, args, document, pc) ==
    [IdleTask EXCEPT !.pc = pc, !.handler = handler, !.user_id = user_id,
                     !.args = args, !.document = document]

\* the handler returns; webhook answers "OK", 200
Return(tk, reply) == [tk EXCEPT !.pc = "done", !.reply = reply, !.response = "OK"]

\* the handler raises: process_update logs it, webhook answers "OK", 200
Escape(tk, exception) == [tk EXCEPT !.pc = "done", !.exc = exception, !.response = "OK"]

\* an exception inside handle_document's try block
Except(tk, exception) == [tk EXCEPT !.pc = "hd_except", !.exc = exception]

Free(t) == task[t].pc \in {"idle", "done"}

\* a variant of StoreContext that keeps an entry the actor already has
StoreContextKeep(contexts, user_id, prefix) ==
    [u \in DOMAIN contexts \cup {user_id} |->
        IF u \in DOMAIN contexts THEN contexts[u]
        ELSE [prefix |-> prefix, waiting_for_file |-> TRUE]]

\* a variant of StoreContext that gives the prefix to every pending request
StoreContextShared(contexts, user_id, prefix) ==
    [u \in DOMAIN contexts \cup {user_id} |-> [prefix |-> prefix, waiting_for_file |-> TRUE]]

\* user_contexts[user_id] = {'prefix': prefix, 'waiting_for_file': True}
StoreContext(contexts, user_id, prefix) ==
    [u \in DOMAIN contexts \cup {user_id} |->
        IF u = user_id THEN [prefix |-> prefix, waiting_for_file |-> TRUE]
        ELSE contexts[u]]

\* del user_contexts[user_id]
DeleteContext(contexts, user_id) ==
    [u \in DOMAIN contexts \ {user_id} |-> contexts[u]]

NoContexts == [u \in {} |-> [prefix |-> <<>>, waiting_for_file |-> TRUE]]

---------------------------------------------------------------------------
(* Handlers that answer in one step *)

\* start: reply_text(welcome_message), no parse mode
start(t) ==
    /\ Free(t)
    /\ \E u \in Users :
         task' = [task EXCEPT ![t] =
                    Return(Dispatch("start", u, <<>>, NoDocument, "done"),
                           Reply("welcome", <<>>, 0))]
    /\ UNCHANGED <<user_contexts, disk, last_search, superseded, consumed, fn>>

\* help_command: reply_text(help_text, parse_mode=MARKDOWN_V2); a Bad
\* Request raises out of the handler
help_command(t) ==
    /\ Free(t)
    /\ \E u \in Users :
         LET call == Dispatch("help_command", u, <<>>, NoDocument, "done") IN
         task' = [task EXCEPT ![t] =
                    IF MarkdownV2Valid(HelpText)
                    THEN Return(call, Reply("help", <<>>, 0))
                    ELSE Escape(call, "BadRequest")]
    /\ UNCHANGED <<user_contexts, disk, last_search, superseded, consumed, fn>>

\* stats_command: reads card_numbers.txt, which no handler writes
stats_command(t) ==
    /\ Free(t)
    /\ \E u \in Users :
         LET call == Dispatch("stats_command", u, <<>>, NoDocument, "done")
             read == read_card_numbers_from_file(disk, CardDatabasePath)
         IN  task' = [task EXCEPT ![t] =
                        IF read.raised # "" THEN Escape(call, read.raised)
                        ELSE IF read.value = <<>>
                             THEN Return(call, Reply("no_database", <<>>, 0))
                        ELSE IF MarkdownV2Valid(StatsText(read.value))
                             THEN Return(call, Reply("stats", <<>>, Len(read.value)))
                        ELSE Escape(call, "BadRequest")]
    /\ UNCHANGED <<user_contexts, disk, last_search, superseded, consumed, fn>>

\* a variant of SearchContexts that drops the pending request on a usage error
SearchContextsResetting(contexts, user_id, args) ==
    IF args = <<>> THEN DeleteContext(contexts, user_id)
    ELSE StoreContext(contexts, user_id, args[1])

\* search_cards, lines 136-147: user_contexts after the command
SearchContexts(contexts, user_id, args) ==
    IF args = <<>> THEN contexts ELSE StoreContext(contexts, user_id, args[1])

\* search_cards, lines 137-141 and 149-157: the reply
SearchReply(args) ==
    IF args = <<>> THEN Reply("usage", <<>>, 0)
    ELSE Reply("awaiting_file", args[1], 0)

search_cards(t) ==
    /\ Free(t)
    /\ \E u \in Users, args \in SearchArgs :
         /\ user_contexts' = SearchContexts(user_contexts, u, args)
         /\ last_search' = IF args = <<>> THEN last_search
                           ELSE [last_search EXCEPT ![u] = args[1]]
         /\ superseded' = IF args = <<>> THEN superseded
                          ELSE [superseded EXCEPT ![u] =
                                   /\ u \in DOMAIN user_contexts
                                   /\ user_contexts[u].prefix # args[1]]
         /\ consumed' = IF args = <<>> THEN consumed
                        ELSE [consumed EXCEPT ![u] = FALSE]
         /\ task' = [task EXCEPT ![t] =
                       Return(Dispatch("search_cards", u, args, NoDocument, "done"),
                              SearchReply(args))]
    /\ UNCHANGED <<disk, fn>>

\* handle_text: reply_text, no parse mode
handle_text(t) ==
    /\ Free(t)
    /\ \E u \in Users :
         task' = [task EXCEPT ![t] =
                    Return(Dispatch("handle_text", u, <<>>, NoDocument, "done"),
                           Reply("unknown", <<>>, 0))]
    /\ UNCHANGED <<user_contexts, disk, last_search, superseded, consumed, fn>>

\* webhook, lines 308-310, and updates no handler takes: answered "OK"
\* with nothing done
webhook_ignored(t) ==
    /\ Free(t)
    /\ \E u \in Users :
         task' = [task EXCEPT ![t] = Return(Dispatch("", u, <<>>, NoDocument, "done"), NoReply)]
    /\ UNCHANGED <<user_contexts, disk, last_search, superseded, consumed, fn>>

---------------------------------------------------------------------------
(* handle_document, one action per step *)

\* a variant of handle_document that leaves the size check out
handle_document_unsized(t) ==
    /\ Free(t)
    /\ \E u \in Users, document \in Documents :
         LET call == [Dispatch("handle_document", u, <<>>, document, "hd_download")
                         EXCEPT !.awaiting = u \in DOMAIN user_contexts] IN
         task' = [task EXCEPT ![t] =
                    IF ~document.txt
                    THEN Return(call, Reply("not_txt", <<>>, 0))
                    ELSE [call EXCEPT !.reply = Reply("processing", <<>>, 0)]]
    /\ UNCHANGED <<user_contexts, disk, last_search, superseded, consumed, fn>>

\* lines 161-183: the processing message, then the two checks on the
\* document's declared attributes
handle_document(t) ==
    /\ Free(t)
    /\ \E u \in Users, document \in Documents :
         LET call == [Dispatch("handle_document", u, <<>>, document, "hd_download")
                         EXCEPT !.awaiting = u \in DOMAIN user_contexts] IN
         task' = [task EXCEPT ![t] =
                    IF ~document.txt
                    THEN Return(call, Reply("not_txt", <<>>, 0))
                    ELSE IF document.file_size > MaxFileSize
                         THEN Return(call, Reply("too_large", <<>>, 0))
                    ELSE [call EXCEPT !.reply = Reply("processing", <<>>, 0)]]
    /\ UNCHANGED <<user_contexts, disk, last_search, superseded, consumed, fn>>

\* lines 186-188: get_file and download_to_drive store the upload in
\* temp_cards_<user_id>.txt, or raise
hd_download(t) ==
    /\ task[t].pc = "hd_download"
    /\ \/ \E file \in Uploads :
            /\ disk' = WriteFile(disk, TempPath(task[t].user_id), file)
            /\ task' = [task EXCEPT ![t].pc = "hd_read"]
       \/ /\ task' = [task EXCEPT ![t] = Except(@, "NetworkError")]
          /\ UNCHANGED disk
    /\ UNCHANGED <<user_contexts, last_search, superseded, consumed, fn>>

\* lines 191-198: the reply when the file holds no card number
EmptyReply == Reply("empty", <<>>, 0)

\* lines 191-198: parse the temporary file; no record ends the handler
hd_read(t) ==
    /\ task[t].pc = "hd_read"
    /\ LET read == read_card_numbers_from_file(disk, TempPath(task[t].user_id)) IN
       task' = [task EXCEPT ![t] =
                  IF read.raised # "" THEN Except(@, read.raised)
                  ELSE IF read.value = <<>> THEN Return(@, EmptyReply)
                  ELSE [@ EXCEPT !.pc = "hd_lookup", !.card_numbers = read.value]]
    /\ UNCHANGED <<user_contexts, disk, last_search, superseded, consumed, fn>>

\* line 201: user_id in user_contexts and user_contexts[user_id].get('waiting_for_file')
Waiting(contexts, user_id) ==
    user_id \in DOMAIN contexts /\ contexts[user_id].waiting_for_file

\* line 202: prefix = user_contexts[user_id]['prefix']
PendingPrefix(contexts, user_id) == contexts[user_id].prefix

\* lines 201-207 and 247: with a pending request, filter; without, the
\* upload is only counted
hd_lookup(t) ==
    /\ task[t].pc = "hd_lookup"
    /\ task' = [task EXCEPT ![t] =
                  IF Waiting(user_contexts, @.user_id)
                  THEN LET prefix == PendingPrefix(user_contexts, @.user_id)
                           matching_cards == extract_matching_cards(@.card_numbers, prefix)
                       IN  [@ EXCEPT !.prefix = prefix,
                                     !.matching_cards = matching_cards,
                                     !.pc = IF matching_cards = <<>>
                                            THEN "hd_no_match" ELSE "hd_write"]
                  ELSE [@ EXCEPT !.pc = "hd_uploaded"]]
    /\ consumed' = IF Waiting(user_contexts, task[t].user_id)
                    THEN [consumed EXCEPT ![task[t].user_id] = TRUE]
                    ELSE consumed
    /\ UNCHANGED <<user_contexts, disk, last_search, superseded, fn>>

\* lines 208-213: edit_text(..., parse_mode=MARKDOWN_V2) of the no-match
\* message: whether the Bot API takes it
NoMatchAccepted(prefix) == MarkdownV2Valid(NoMatchText(prefix))

\* lines 207-216: report no match, then clear the context
hd_no_match(t) ==
    /\ task[t].pc = "hd_no_match"
    /\ IF ~NoMatchAccepted(task[t].prefix)
       THEN /\ task' = [task EXCEPT ![t] = Except(@, "BadRequest")]
            /\ UNCHANGED user_contexts
       ELSE IF task[t].user_id \notin DOMAIN user_contexts
       THEN /\ task' = [task EXCEPT ![t] =
                          Except([@ EXCEPT !.reply = Reply("no_match", task[t].prefix,
                                                            Len(task[t].card_numbers))],
                                 "KeyError")]
            /\ UNCHANGED user_contexts
       ELSE /\ task' = [task EXCEPT ![t] =
                          Return(@, Reply("no_match", @.prefix, Len(@.card_numbers)))]
            /\ user_contexts' = DeleteContext(user_contexts, task[t].user_id)
    /\ UNCHANGED <<disk, last_search, superseded, consumed, fn>>

\* lines 219-222: the results file
hd_write(t) ==
    /\ task[t].pc = "hd_write"
    /\ disk' = WriteFile(disk,
                         ResultsPath(task[t].prefix, Len(task[t].matching_cards)),
                         TextFile(write_cards(task[t].matching_cards)))
    /\ task' = [task EXCEPT ![t].pc = "hd_send"]
    /\ UNCHANGED <<user_contexts, last_search, superseded, consumed, fn>>

\* lines 225-235: open the results file and send it with its caption
hd_send(t) ==
    /\ task[t].pc = "hd_send"
    /\ LET path == ResultsPath(task[t].prefix, Len(task[t].matching_cards)) IN
       task' = [task EXCEPT ![t] =
                  IF path \notin DOMAIN disk THEN Except(@, "FileNotFoundError")
                  ELSE [@ EXCEPT !.pc = "hd_remove_results",
                                 !.sent_document =
                                     <<[filename |-> path, file |-> disk[path],
                                        prefix |-> task[t].prefix,
                                        found |-> Len(task[t].matching_cards),
                                        total |-> Len(task[t].card_numbers)]>>]]
    /\ UNCHANGED <<user_contexts, disk, last_search, superseded, consumed, fn>>

\* line 238: os.remove(results_filename)
hd_remove_results(t) ==
    /\ task[t].pc = "hd_remove_results"
    /\ LET path == ResultsPath(task[t].prefix, Len(task[t].matching_cards)) IN
       IF path \notin DOMAIN disk
       THEN /\ task' = [task EXCEPT ![t] = Except(@, "FileNotFoundError")]
            /\ UNCHANGED disk
       ELSE /\ task' = [task EXCEPT ![t].pc = "hd_remove_temp"]
            /\ disk' = RemoveFile(disk, path)
    /\ UNCHANGED <<user_contexts, last_search, superseded, consumed, fn>>

\* line 239: os.remove(temp_file_path)
hd_remove_temp(t) ==
    /\ task[t].pc = "hd_remove_temp"
    /\ LET path == TempPath(task[t].user_id) IN
       IF path \notin DOMAIN disk
       THEN /\ task' = [task EXCEPT ![t] = Except(@, "FileNotFoundError")]
            /\ UNCHANGED disk
       ELSE /\ task' = [task EXCEPT ![t].pc = "hd_clear"]
            /\ disk' = RemoveFile(disk, path)
    /\ UNCHANGED <<user_contexts, last_search, superseded, consumed, fn>>

\* lines 242-245: clear the context and delete the processing message
hd_clear(t) ==
    /\ task[t].pc = "hd_clear"
    /\ IF task[t].user_id \notin DOMAIN user_contexts
       THEN /\ task' = [task EXCEPT ![t] = Except(@, "KeyError")]
            /\ UNCHANGED user_contexts
       ELSE /\ task' = [task EXCEPT ![t] = Return(@, Reply("deleted", <<>>, 0))]
            /\ user_contexts' = DeleteContext(user_contexts, task[t].user_id)
    /\ UNCHANGED <<disk, last_search, superseded, consumed, fn>>

\* lines 249-256: edit_text(..., parse_mode=MARKDOWN_V2) of the upload
\* statistics: whether the Bot API takes it
UploadedAccepted == MarkdownV2Valid(UploadedText)

\* lines 247-258: an upload with no pending request
hd_uploaded(t) ==
    /\ task[t].pc = "hd_uploaded"
    /\ LET path == TempPath(task[t].user_id) IN
       IF ~UploadedAccepted
       THEN /\ task' = [task EXCEPT ![t] = Except(@, "BadRequest")]
            /\ UNCHANGED disk
       ELSE IF path \notin DOMAIN disk
       THEN /\ task' = [task EXCEPT ![t] =
                          Except([@ EXCEPT !.reply = Reply("uploaded", <<>>, Len(task[t].card_numbers))],
                                 "FileNotFoundError")]
            /\ UNCHANGED disk
       ELSE /\ task' = [task EXCEPT ![t] =
                          Return(@, Reply("uploaded", <<>>, Len(@.card_numbers)))]
            /\ disk' = RemoveFile(disk, path)
    /\ UNCHANGED <<user_contexts, last_search, superseded, consumed, fn>>

\* a variant of ClearOnError that leaves the context in place
KeepOnError(contexts, user_id) == contexts

\* a variant of ClearOnError that clears every actor's context
ClearAllOnError(contexts, user_id) == NoContexts

\* lines 267-268: if user_id in user_contexts: del user_contexts[user_id]
ClearOnError(contexts, user_id) ==
    IF user_id \in DOMAIN contexts THEN DeleteContext(contexts, user_id) ELSE contexts

\* lines 260-268: the except branch
hd_except(t) ==
    /\ task[t].pc = "hd_except"
    /\ task' = [task EXCEPT ![t] = Return(@, Reply("error", <<>>, 0))]
    /\ user_contexts' = ClearOnError(user_contexts, task[t].user_id)
    /\ UNCHANGED <<disk, last_search, superseded, consumed, fn>>

---------------------------------------------------------------------------
(* The pure helpers on drawn inputs *)

FnIdle ==
    [pc |-> "idle", prefix |-> <<>>, read |-> Returned(<<>>),
     filtered |-> Returned(<<>>), reparsed |-> Returned(<<>>),
     refiltered |-> Returned(<<>>), cards |-> <<>>, top_prefixes |-> <<>>,
     stats |-> <<>>]

\* the prefixes drawn, the empty one among them
FnPrefixes == SeqsUpTo(Chars \ Whitespace, MaxPrefixLen)

\* the source file drawn: missing, undecodable, or any text
FnSources ==
    {NoFiles}
    \cup {WriteFile(NoFiles, CardDatabasePath, UndecodableFile)}
    \cup {WriteFile(NoFiles, CardDatabasePath, TextFile(text)) : text \in Texts}

\* parse: read_card_numbers_from_file
FnParse ==
    /\ fn.pc = "parse"
    /\ LET read == read_card_numbers_from_file(disk, CardDatabasePath) IN
       fn' = [fn EXCEPT !.read = read,
                        !.pc = IF read.raised # "" THEN "raised" ELSE "filter"]
    /\ UNCHANGED <<user_contexts, disk, task, last_search, superseded, consumed>>

\* filter: extract_matching_cards
FnFilter ==
    /\ fn.pc = "filter"
    /\ fn' = [fn EXCEPT !.filtered =
                            Returned(extract_matching_cards(fn.read.value, fn.prefix)),
                        !.pc = "write"]
    /\ UNCHANGED <<user_contexts, disk, task, last_search, superseded, consumed>>

\* the output format: the results file as handle_document writes it
FnWrite ==
    /\ fn.pc = "write"
    /\ disk' = WriteFile(disk, ResultsPath(fn.prefix, Len(fn.filtered.value)),
                         TextFile(write_cards(fn.filtered.value)))
    /\ fn' = [fn EXCEPT !.pc = "reparse"]
    /\ UNCHANGED <<user_contexts, task, last_search, superseded, consumed>>

\* parse of the results file
FnReparse ==
    /\ fn.pc = "reparse"
    /\ fn' = [fn EXCEPT !.reparsed =
                            read_card_numbers_from_file(
                                disk, ResultsPath(fn.prefix, Len(fn.filtered.value))),
                        !.pc = "done"]
    /\ UNCHANGED <<user_contexts, disk, task, last_search, superseded, consumed>>

\* filter again: extract_matching_cards on its own result
FnRefilter ==
    /\ fn.pc = "done"
    /\ fn' = [fn EXCEPT !.refiltered =
                            Returned(extract_matching_cards(fn.filtered.value, fn.prefix)),
                        !.pc = "refiltered"]
    /\ UNCHANGED <<user_contexts, disk, task, last_search, superseded, consumed>>

\* the record lists drawn for the prefix statistics: a card too short for
\* any prefix, and cards that share or differ in their first characters
StatsCards ==
    {<<"a">>, <<"a", "A">>, <<"a", "a", "a", "a">>, <<"a", "a", "a", "a", "A">>,
     <<"A", "a", "a", "a">>}

StatsRecordLists == SeqsUpTo(StatsCards, MaxRecords)

\* the prefix statistics at the small scale
StSummarize ==
    /\ fn.pc = "summarize"
    /\ fn' = [fn EXCEPT !.top_prefixes =
                            top_prefixes(fn.cards, SmallLimit, SmallWidth, SmallTop),
                        !.pc = "statistics"]
    /\ UNCHANGED <<user_contexts, disk, task, last_search, superseded, consumed>>

\* the prefix statistics as stats_command computes them
StStatistics ==
    /\ fn.pc = "statistics"
    /\ fn' = [fn EXCEPT !.stats = prefix_statistics(fn.cards), !.pc = "done"]
    /\ UNCHANGED <<user_contexts, disk, task, last_search, superseded, consumed>>

---------------------------------------------------------------------------
(* Specifications *)

Init ==
    /\ user_contexts = NoContexts
    /\ disk = NoFiles
    /\ task = [t \in Threads |-> IdleTask]
    /\ last_search = [u \in Users |-> <<>>]
    /\ superseded = [u \in Users |-> FALSE]
    /\ consumed = [u \in Users |-> FALSE]
    /\ fn = FnIdle

Next ==
    \E t \in SerialThreads :
        \/ start(t)
        \/ help_command(t)
        \/ stats_command(t)
        \/ search_cards(t)
        \/ handle_text(t)
        \/ webhook_ignored(t)
        \/ handle_document(t)
        \/ hd_download(t)
        \/ hd_read(t)
        \/ hd_lookup(t)
        \/ hd_no_match(t)
        \/ hd_write(t)
        \/ hd_send(t)
        \/ hd_remove_results(t)
        \/ hd_remove_temp(t)
        \/ hd_clear(t)
        \/ hd_uploaded(t)
        \/ hd_except(t)

\* the bot, one webhook request at a time
Spec == Init /\ [][Next]_vars

FnInit ==
    /\ user_contexts = NoContexts
    /\ disk \in FnSources
    /\ task = [t \in Threads |-> IdleTask]
    /\ last_search = [u \in Users |-> <<>>]
    /\ superseded = [u \in Users |-> FALSE]
    /\ consumed = [u \in Users |-> FALSE]
    /\ fn \in {[FnIdle EXCEPT !.pc = "parse", !.prefix = p] : p \in FnPrefixes}

FnNext == FnParse \/ FnFilter \/ FnWrite \/ FnReparse \/ FnRefilter

\* the pure helpers on every source and prefix within the bounds
FnSpec == FnInit /\ [][FnNext]_vars

StInit ==
    /\ user_contexts = NoContexts
    /\ disk = NoFiles
    /\ task = [t \in Threads |-> IdleTask]
    /\ last_search = [u \in Users |-> <<>>]
    /\ superseded = [u \in Users |-> FALSE]
    /\ consumed = [u \in Users |-> FALSE]
    /\ fn \in {[FnIdle EXCEPT !.pc = "summarize", !.cards = R] : R \in StatsRecordLists}

StNext == StSummarize \/ StStatistics

\* the prefix statistics on every record list within the bounds
StatsSpec == StInit /\ [][StNext]_vars

---------------------------------------------------------------------------
(* Properties of the pure helpers, under FnSpec *)

FnFiltered == fn.pc \in {"write", "reparse", "done", "refiltered"}

FnParsed == fn.pc \in {"filter", "write", "reparse", "done", "refiltered"}

\* the records of R that start with p, by position
MatchingPositions(R, p) ==
    {i \in 1..Len(R) : Len(p) <= Len(R[i]) /\ \A j \in 1..Len(p) : R[i][j] = p[j]}

\* the k-th smallest element of a set of numbers
KthOf(I, k) == CHOOSE i \in I : Cardinality({j \in I : j < i}) = k - 1

\* C1: for a non-empty prefix p, extract_matching_cards(R, p) is exactly
\* the records of R that start with p, compared character by character, in
\* their order in R and as often as they occur in R.
C1_FilterExact ==
    (FnFiltered /\ fn.prefix # <<>>) =>
        LET R == fn.read.value
            M == fn.filtered.value
            I == MatchingPositions(R, fn.prefix)
        IN  /\ fn.filtered.raised = ""
            /\ Len(M) = Cardinality(I)
            /\ \A k \in 1..Len(M) : M[k] = R[KthOf(I, k)]

\* C1, witness: a non-empty prefix kept one record and dropped another
C1_Witness ==
    /\ FnFiltered
    /\ fn.prefix # <<>>
    /\ Len(fn.filtered.value) >= 1
    /\ Len(fn.filtered.value) < Len(fn.read.value)

\* C4 as claimed: the empty prefix on a non-empty record list is rejected
\* with InvalidPrefixError and returns no record list.
C4_EmptyPrefixRejected ==
    (FnFiltered /\ fn.prefix = <<>> /\ fn.read.value # <<>>) =>
        fn.filtered.raised = "InvalidPrefixError"

\* C4 as amended: extract_matching_cards raises nothing; with the empty
\* prefix it returns every record of R, in order.
C4_EmptyPrefixReturnsAll ==
    (FnFiltered /\ fn.prefix = <<>>) => fn.filtered = Returned(fn.read.value)

\* C4, witness: the empty prefix was applied to two records or more
C4_Witness ==
    FnFiltered /\ fn.prefix = <<>> /\ Len(fn.read.value) >= 2

\* the text of the source file
FnSourceText == disk[CardDatabasePath].text

FnSourceIsText == CardDatabasePath \in DOMAIN disk /\ disk[CardDatabasePath].decodable

\* where a line of s starts: at 1 and after every line break
LineStarts(s) == {i \in 1..(Len(s) + 1) : i = 1 \/ s[i - 1] \in LineBreaks}

\* the positions of the line starting at i that hold no whitespace
InkOfLine(s, i) ==
    {k \in i..Len(s) : s[k] \notin Whitespace /\ \A j \in i..k : s[j] \notin LineBreaks}

NonBlankLineStarts(s) == {i \in LineStarts(s) : InkOfLine(s, i) # {}}

\* the line starting at i without its leading and trailing whitespace
TrimmedLine(s, i) ==
    LET ink == InkOfLine(s, i)
        first == CHOOSE k \in ink : \A j \in ink : k <= j
        last == CHOOSE k \in ink : \A j \in ink : j <= k
    IN  SubSeq(s, first, last)

\* C6: read_card_numbers_from_file returns the trimmed non-blank lines of
\* the text, in order: no record is empty, starts or ends with whitespace,
\* or holds a line break, and the k-th record is the k-th non-blank line
\* trimmed.
C6_ParseTrimmedLines ==
    (FnParsed /\ FnSourceIsText) =>
        LET s == FnSourceText
            starts == NonBlankLineStarts(s)
            records == fn.read.value
        IN  /\ fn.read.raised = ""
            /\ Len(records) = Cardinality(starts)
            /\ \A k \in 1..Len(records) :
                 /\ records[k] = TrimmedLine(s, KthOf(starts, k))
                 /\ records[k] # <<>>
                 /\ records[k][1] \notin Whitespace
                 /\ records[k][Len(records[k])] \notin Whitespace
                 /\ \A j \in 1..Len(records[k]) : records[k][j] \notin LineBreaks

\* C6, witness: a blank line was dropped between two records, and
\* whitespace was trimmed
C6_Witness ==
    /\ FnParsed
    /\ FnSourceIsText
    /\ Len(fn.read.value) >= 1
    /\ Cardinality(LineStarts(FnSourceText)) > Len(fn.read.value) + 1
    /\ FnSourceText[1] \in Whitespace \ LineBreaks

\* C9: the results file written from filter(R, p), parsed again, is
\* filter(R, p): the same records in the same order.
C9_RoundTrip ==
    (fn.pc = "done" /\ fn.prefix # <<>>) =>
        fn.reparsed = Returned(fn.filtered.value)

\* C9, witness: two records went through the results file and came back
C9_Witness ==
    /\ fn.pc = "done"
    /\ fn.prefix # <<>>
    /\ Len(fn.reparsed.value) >= 2

\* C13: filtering is idempotent: for a non-empty prefix p,
\* extract_matching_cards applied to extract_matching_cards(R, p) with the
\* same p returns the same records in the same order.
C13_FilterIdempotent ==
    (fn.pc = "refiltered" /\ fn.prefix # <<>>) => fn.refiltered = fn.filtered

\* C13, witness: a list from which the first filter dropped a record was
\* filtered again, and a record longer than the prefix came out
C13_Witness ==
    /\ fn.pc = "refiltered"
    /\ fn.prefix # <<>>
    /\ Len(fn.filtered.value) < Len(fn.read.value)
    /\ \E k \in 1..Len(fn.refiltered.value) : Len(fn.refiltered.value[k]) > Len(fn.prefix)

---------------------------------------------------------------------------
(* Properties of the bot, under Spec *)

\* thread t has finished a call of handle_document
UploadDone(t) == task[t].handler = "handle_document" /\ task[t].pc = "done"

\* the replies of an upload that was turned away before the filter
Rejections == {"not_txt", "too_large", "empty"}

\* the entry of user_contexts for a pending prefix
Pending(prefix) == [prefix |-> prefix, waiting_for_file |-> TRUE]

\* C2: user_contexts holds at most one pending request per actor, the one
\* of the actor's latest /search <prefix>, and an upload is filtered with
\* the prefix of the actor's latest /search, never with an earlier one.
C2_LatestSearchWins ==
    /\ DOMAIN user_contexts \subseteq Users
    /\ \A u \in DOMAIN user_contexts : user_contexts[u] = Pending(last_search[u])
    /\ \A t \in Threads :
         task[t].prefix # <<>> => task[t].prefix = last_search[task[t].user_id]

\* C2, witness: /search p1, then /search p2 with another prefix, then an
\* upload that was filtered
C2_Witness ==
    \E t \in Threads :
        /\ UploadDone(t)
        /\ task[t].prefix # <<>>
        /\ superseded[task[t].user_id]

\* C3 as claimed: an actor who uploads while AwaitingFile is Idle once
\* handle_document has finished, whatever the outcome, rejections included.
C3_IdleAfterAnyUpload ==
    \A t \in Threads :
        (UploadDone(t) /\ task[t].awaiting) =>
            task[t].user_id \notin DOMAIN user_contexts

\* C3 as amended: the actor is Idle after a match, no match or a processing
\* error; an upload rejected for its name, its declared size or for holding
\* no record leaves the pending request as it was.
C3_IdleUnlessRejected ==
    \A t \in Threads :
        (UploadDone(t) /\ task[t].awaiting) =>
            IF task[t].reply.kind \in Rejections
            THEN /\ task[t].user_id \in DOMAIN user_contexts
                 /\ user_contexts[task[t].user_id] = Pending(last_search[task[t].user_id])
            ELSE task[t].user_id \notin DOMAIN user_contexts

\* C3, witness: a pending request was answered with a results file and the
\* actor is Idle
C3_Witness ==
    \E t \in Threads :
        /\ UploadDone(t)
        /\ task[t].awaiting
        /\ task[t].sent_document # <<>>
        /\ task[t].user_id \notin DOMAIN user_contexts

\* thread t handles a /search command in this step
SearchStep(t) == task'[t] # task[t] /\ task'[t].handler = "search_cards"

\* C5: a /search without prefix is answered with the usage message and
\* leaves user_contexts as it was; a /search with a prefix stores exactly
\* that prefix for the actor and nothing else; and an actor becomes
\* AwaitingFile only by a /search of theirs that names a prefix.
C5_SearchUsage ==
    [][/\ \A t \in Threads :
            SearchStep(t) =>
                LET u == task'[t].user_id
                    args == task'[t].args
                IN  IF args = <<>>
                    THEN /\ task'[t].reply.kind = "usage"
                         /\ user_contexts' = user_contexts
                    ELSE /\ task'[t].reply = Reply("awaiting_file", args[1], 0)
                         /\ DOMAIN user_contexts' = DOMAIN user_contexts \cup {u}
                         /\ user_contexts'[u] = Pending(args[1])
                         /\ \A v \in DOMAIN user_contexts \ {u} :
                              user_contexts'[v] = user_contexts[v]
       /\ \A u \in Users :
            (u \notin DOMAIN user_contexts /\ u \in DOMAIN user_contexts') =>
                \E t \in Threads :
                    /\ SearchStep(t)
                    /\ task'[t].user_id = u
                    /\ task'[t].args # <<>>]_vars

\* C5, witness: a /search without prefix from an actor with a pending request
C5_Witness ==
    \E t \in Threads :
        /\ task[t].handler = "search_cards"
        /\ task[t].args = <<>>
        /\ task[t].reply.kind = "usage"
        /\ task[t].user_id \in DOMAIN user_contexts

AllWhitespace(text) == \A i \in 1..Len(text) : text[i] \in Whitespace

\* thread t parses the uploaded file in this step
ReadStep(t) == task[t].pc = "hd_read" /\ task'[t].pc # "hd_read"

\* thread t handles a /stats command in this step
StatsStep(t) == task'[t] # task[t] /\ task'[t].handler = "stats_command"

\* C7 as claimed: a payload with no record is reported as 'no valid
\* records' and is not filtered, and a source that is missing or cannot be
\* read is an empty record set, not an error.
C7_NoRecordsNeverAnError ==
    [][\A t \in Threads :
         /\ ReadStep(t) =>
              LET file == disk[TempPath(task[t].user_id)] IN
              (~file.decodable \/ AllWhitespace(file.text)) =>
                  /\ task'[t].pc = "done"
                  /\ task'[t].reply = EmptyReply
                  /\ task'[t].exc = ""
         /\ (StatsStep(t) /\ CardDatabasePath \notin DOMAIN disk) =>
              /\ task'[t].reply.kind = "no_database"
              /\ task'[t].exc = ""]_vars

\* C7 as amended: a payload that is empty or all blank is reported as 'no
\* valid card numbers' and ends the handler before the filter; the filter
\* only ever gets one record or more; a missing source is an empty record
\* set and no error; a source that does not decode raises and goes to the
\* except branch.
C7_NoRecordsReported ==
    [][\A t \in Threads :
         /\ ReadStep(t) =>
              LET file == disk[TempPath(task[t].user_id)] IN
              /\ (file.decodable /\ AllWhitespace(file.text)) =>
                   /\ task'[t].pc = "done"
                   /\ task'[t].reply = EmptyReply
                   /\ task'[t].exc = ""
                   /\ task'[t].prefix = <<>>
              /\ (file.decodable /\ ~AllWhitespace(file.text)) =>
                   /\ task'[t].pc = "hd_lookup"
                   /\ task'[t].card_numbers # <<>>
              /\ ~file.decodable =>
                   /\ task'[t].pc = "hd_except"
                   /\ task'[t].exc = "UnicodeDecodeError"
         /\ (task'[t].prefix # <<>>) => task'[t].card_numbers # <<>>
         /\ (StatsStep(t) /\ CardDatabasePath \notin DOMAIN disk) =>
              /\ task'[t].reply.kind = "no_database"
              /\ task'[t].exc = ""]_vars

\* C7, witness: an all-blank upload for a pending request was reported as
\* holding no card number
C7_Witness ==
    \E t \in Threads :
        /\ UploadDone(t)
        /\ task[t].awaiting
        /\ task[t].reply = EmptyReply
        /\ disk[TempPath(task[t].user_id)].decodable
        /\ disk[TempPath(task[t].user_id)].text # <<>>

\* C8: an upload for a pending request that holds records none of which
\* matches ends with the no-match message, which carries the number of
\* records processed, with no results file sent and without the except
\* branch; and the no-match message is never what a processing error shows.
C8_NoMatchReported ==
    \A t \in Threads :
        /\ (UploadDone(t) /\ task[t].prefix # <<>> /\ task[t].card_numbers # <<>>
                /\ task[t].matching_cards = <<>>) =>
              /\ task[t].reply = Reply("no_match", task[t].prefix, Len(task[t].card_numbers))
              /\ task[t].sent_document = <<>>
              /\ task[t].exc = ""
        /\ (UploadDone(t) /\ task[t].exc # "") => task[t].reply.kind # "no_match"

\* thread t runs the except branch of handle_document in this step
ExceptStep(t) == task[t].pc = "hd_except" /\ task'[t].pc = "done"

\* the entries of every actor but u are the same before and after the step
OthersUnchanged(u) ==
    \A v \in Users \ {u} :
        /\ v \in DOMAIN user_contexts' <=> v \in DOMAIN user_contexts
        /\ v \in DOMAIN user_contexts => user_contexts'[v] = user_contexts[v]

\* C10: a failure while an upload is processed is reported to its actor as
\* a processing error, removes that actor's pending request, leaves every
\* other actor's entry as it was, and the webhook answers OK and takes the
\* next update.
C10_FailureIsLocal ==
    [][\A t \in Threads :
         /\ ExceptStep(t) =>
              /\ task'[t].reply.kind = "error"
              /\ task'[t].response = "OK"
              /\ task'[t].user_id = task[t].user_id
              /\ task[t].user_id \notin DOMAIN user_contexts'
         /\ (UploadDone(t) /\ task[t].reply.kind = "error") =>
              /\ ENABLED handle_document(t)
              /\ ENABLED search_cards(t)
         /\ (task[t].handler = "handle_document" /\ ~Free(t)) =>
              OthersUnchanged(task[t].user_id)]_vars

\* C10, witness: an upload for a pending request failed while another
\* actor had a pending request
C10_Witness ==
    \E t \in Threads :
        /\ UploadDone(t)
        /\ task[t].awaiting
        /\ task[t].reply.kind = "error"
        /\ task[t].exc \in {"NetworkError", "UnicodeDecodeError"}
        /\ \E v \in Users \ {task[t].user_id} : v \in DOMAIN user_contexts

\* the entry of actor u differs before and after the step
EntryChanged(u) ==
    \/ (u \in DOMAIN user_contexts') # (u \in DOMAIN user_contexts)
    \/ u \in DOMAIN user_contexts /\ u \in DOMAIN user_contexts'
          /\ user_contexts'[u] # user_contexts[u]

\* the handlers that never touch user_contexts; "" is an update no handler takes
Bystanders == {"start", "help_command", "stats_command", "handle_text", ""}

\* C11: nothing times out or cancels a pending request: the entry of an
\* actor is left as it was by every /start, /help, /stats and text message
\* of any actor and by every /search and upload of another actor; a step
\* that changes it is a step of a /search or an upload of that same actor.
C11_PendingKept ==
    [][\A u \in Users, t \in Threads :
         (task'[t] # task[t]) =>
             /\ task'[t].handler \in Bystanders => ~EntryChanged(u)
             /\ task'[t].user_id # u => ~EntryChanged(u)
             /\ EntryChanged(u) =>
                  /\ task'[t].user_id = u
                  /\ task'[t].handler \in {"search_cards", "handle_document"}]_vars

\* C11, witness: an actor is still AwaitingFile after another actor's
\* pending request was answered with a results file
C11_Witness ==
    \E t \in Threads :
        /\ UploadDone(t)
        /\ task[t].sent_document # <<>>
        /\ \E v \in Users \ {task[t].user_id} :
             v \in DOMAIN user_contexts /\ user_contexts[v] = Pending(last_search[v])

---------------------------------------------------------------------------
(* Properties of the prefix statistics, under StatsSpec *)

\* the positions of R that are counted: among the first `limit`, with
\* `width` characters or more
Counted(R, limit, width) == {i \in 1..Len(R) : i <= limit /\ Len(R[i]) >= width}

\* the first `width` characters of the record at position i
PrefixAt(R, i, width) == [j \in 1..width |-> R[i][j]]

PrefixesOf(R, limit, width) == {PrefixAt(R, i, width) : i \in Counted(R, limit, width)}

\* the counted positions whose record starts with p
PositionsOf(R, limit, width, p) ==
    {i \in Counted(R, limit, width) : PrefixAt(R, i, width) = p}

\* p is listed before q: it was counted more often, or as often and met first
ListedBefore(R, limit, width, p, q) ==
    LET P == PositionsOf(R, limit, width, p)
        Q == PositionsOf(R, limit, width, q)
    IN  \/ Cardinality(P) > Cardinality(Q)
        \/ /\ Cardinality(P) = Cardinality(Q)
           /\ \E i \in P : \A j \in Q : i < j

\* `result` is the statistics of R: the `top` prefixes that come first (all
\* of them when there are fewer), each with its count, in their order
IsTopPrefixes(result, R, limit, width, top) ==
    LET all == PrefixesOf(R, limit, width)
        listed == {result[k][1] : k \in 1..Len(result)}
    IN  /\ Len(result) = IF Cardinality(all) < top THEN Cardinality(all) ELSE top
        /\ listed \subseteq all
        /\ \A k \in 1..Len(result) :
             result[k][2] = Cardinality(PositionsOf(R, limit, width, result[k][1]))
        /\ \A k, l \in 1..Len(result) :
             k < l => ListedBefore(R, limit, width, result[k][1], result[l][1])
        /\ \A p \in listed, q \in all \ listed : ListedBefore(R, limit, width, p, q)

\* C12: the statistics count the first characters of the records among the
\* first `limit` that are long enough, leave out shorter records, and list
\* at most `top` prefixes by descending count, equal counts in the order in
\* which the prefixes were first met; with 5000, 4 and 10 as in the source
\* and with the three at the small scale.
C12_TopPrefixes ==
    /\ fn.pc \in {"statistics", "done"} =>
         IsTopPrefixes(fn.top_prefixes, fn.cards, SmallLimit, SmallWidth, SmallTop)
    /\ fn.pc = "done" =>
         IsTopPrefixes(fn.stats, fn.cards, AnalysisLimit, StatsPrefixLen, TopCount)

\* C12, witness: a record past the limit and a short record were left out,
\* more prefixes were counted than are listed, and two listed prefixes
\* have the same count
C12_Witness ==
    /\ fn.pc = "done"
    /\ Len(fn.cards) > SmallLimit
    /\ Len(fn.cards[Len(fn.cards)]) >= SmallWidth
    /\ \E i \in 1..SmallLimit : Len(fn.cards[i]) < SmallWidth
    /\ Cardinality(PrefixesOf(fn.cards, SmallLimit, SmallWidth)) > SmallTop
    /\ Len(fn.top_prefixes) = SmallTop
    /\ \A k \in 1..SmallTop : fn.top_prefixes[k][2] = fn.top_prefixes[1][2]
    /\ fn.stats # <<>>

---------------------------------------------------------------------------
(* Concurrent dispatch *)

\* the uploads of the concurrent runs: files that hold records
ConcUploads ==
    {TextFile(text) : text \in {<<"a", "\n">>, <<"a", "a", "\r", "\n", "A">>}}

\* a webhook thread takes a /search that names a prefix, or an upload that
\* passes the two checks and is downloaded; it serves one upload
ConcStep(t) ==
    \/ /\ task[t].handler # "handle_document"
       /\ search_cards(t)
       /\ task'[t].args # <<>>
    \/ /\ task[t].handler # "handle_document"
       /\ handle_document(t)
       /\ task'[t].pc = "hd_download"
    \/ /\ hd_download(t)
       /\ task'[t].pc = "hd_read"
       /\ disk'[TempPath(task[t].user_id)] \in ConcUploads
    \/ hd_read(t)
    \/ hd_lookup(t)
    \/ hd_no_match(t)
    \/ hd_write(t)
    \/ hd_send(t)
    \/ hd_remove_results(t)
    \/ hd_remove_temp(t)
    \/ hd_clear(t)
    \/ hd_uploaded(t)
    \/ hd_except(t)

ConcNext == \E t \in Threads : ConcStep(t)

\* the bot with webhook requests handled by two threads at once
ConcSpec == Init /\ [][ConcNext]_vars

---------------------------------------------------------------------------
(* Properties of the bot under concurrent dispatch, under ConcSpec *)

\* thread s has finished a /search that names a prefix
SearchDone(s) ==
    task[s].handler = "search_cards" /\ task[s].pc = "done" /\ task[s].args # <<>>

\* C14: last write wins under concurrent dispatch: when an upload that was
\* filtered with prefix p1 has finished and the actor's latest /search,
\* finished too, named another prefix p2, the actor is AwaitingFile with p2;
\* the end of the older upload never deletes the newer request.
C14_NewerSearchKept ==
    \A t, s \in Threads :
        (/\ UploadDone(t)
         /\ task[t].prefix # <<>>
         /\ SearchDone(s)
         /\ task[s].user_id = task[t].user_id
         /\ task[s].args[1] = last_search[task[t].user_id]
         /\ task[s].args[1] # task[t].prefix) =>
            /\ task[t].user_id \in DOMAIN user_contexts
            /\ user_contexts[task[t].user_id] = Pending(task[s].args[1])

\* thread t looks the pending request up in this step
LookupStep(t) == task[t].pc = "hd_lookup" /\ task'[t].pc # "hd_lookup"

\* thread t enters the except branch in this step
RaiseStep(t) == task[t].pc # "hd_except" /\ task'[t].pc = "hd_except"

\* C15: one pending request is consumed by at most one upload: an upload
\* is filtered only with a request no other upload has read, and no upload
\* goes to the except branch for a user_contexts entry (KeyError) or a
\* temporary file (FileNotFoundError) that another handler has deleted.
C15_OneUploadPerRequest ==
    [][\A t \in Threads :
         /\ (LookupStep(t) /\ task'[t].prefix # <<>>) => ~consumed[task[t].user_id]
         /\ (RaiseStep(t) /\ task[t].pc \in {"hd_no_match", "hd_clear"}) =>
              task'[t].exc # "KeyError"
         /\ (RaiseStep(t) /\ task[t].pc \in {"hd_remove_temp", "hd_uploaded"}) =>
              task'[t].exc # "FileNotFoundError"]_vars

\* thread t is the only one that handles, or has handled, an upload of its actor
OnlyUploadOfActor(t) ==
    \A s \in Threads \ {t} :
        task[s].handler = "handle_document" => task[s].user_id # task[t].user_id

\* C16: results are isolated between actors: with uploads of different
\* actors interleaved, the results file sent to an actor holds exactly the
\* matching records of that actor's own upload, also when both files have
\* the same name, and no handler fails for a results file that another
\* actor's handler replaced or removed.
C16_ResultsIsolated ==
    \A t \in Threads :
        (task[t].handler = "handle_document" /\ OnlyUploadOfActor(t)) =>
            /\ task[t].sent_document # <<>> =>
                 task[t].sent_document[1].file =
                     TextFile(write_cards(
                         extract_matching_cards(task[t].card_numbers, task[t].prefix)))
            /\ task[t].matching_cards # <<>> => task[t].exc # "FileNotFoundError"

---------------------------------------------------------------------------
(* Properties of the files and of idle uploads, under Spec *)

\* thread t has finished an upload that was stored in the temporary file
DownloadedDone(t) ==
    /\ UploadDone(t)
    /\ task[t].reply.kind \notin {"not_txt", "too_large"}
    /\ task[t].exc # "NetworkError"

\* C17: uploaded records are discarded once the request is answered: after
\* handle_document has finished for an upload that was downloaded, the
\* file temp_cards_<user_id>.txt does not exist, whatever the path: match,
\* no match, no record, no pending request, or the except branch.
C17_TempFileRemoved ==
    \A t \in Threads :
        DownloadedDone(t) => TempPath(task[t].user_id) \notin DOMAIN disk

\* thread t finishes a call of handle_document in this step
FinishStep(t) ==
    task'[t].handler = "handle_document" /\ task[t].pc # "done" /\ task'[t].pc = "done"

\* C18: an upload that holds records, from an actor with no pending
\* request, is never filtered and sends no results file; it is answered
\* with the load statistics and nothing else, the actor stays Idle, the
\* other actors' entries stay as they were, and it is not retained: no
\* handler writes card_numbers.txt, so /stats answers as before.
C18_IdleUploadCounted ==
    [][\A t \in Threads :
         /\ (FinishStep(t) /\ ~task'[t].awaiting /\ task'[t].card_numbers # <<>>) =>
              /\ task'[t].prefix = <<>>
              /\ task'[t].matching_cards = <<>>
              /\ task'[t].sent_document = <<>>
              /\ task'[t].reply = Reply("uploaded", <<>>, Len(task'[t].card_numbers))
              /\ task'[t].exc = ""
              /\ task'[t].user_id \notin DOMAIN user_contexts'
         /\ (task[t].handler = "handle_document" /\ ~Free(t) /\ ~task[t].awaiting) =>
              /\ OthersUnchanged(task[t].user_id)
              /\ task[t].user_id \notin DOMAIN user_contexts'
         /\ CardDatabasePath \notin DOMAIN disk'
         /\ StatsStep(t) => task'[t].reply.kind = "no_database"]_vars

\* thread t takes an uploaded document in this step
DocumentStep(t) == Free(t) /\ task'[t] # task[t] /\ task'[t].handler = "handle_document"

\* the document passes both checks
Passes(document) == document.txt /\ document.file_size <= MaxFileSize

\* C19: a document is downloaded and parsed only after both checks have
\* passed, the name first and the declared size second: a document whose
\* name does not end in .txt gets the file-type rejection, a .txt document
\* that declares more than 10MB gets the size rejection, and for both
\* nothing is downloaded, parsed or filtered and user_contexts stays as it
\* was; every step after the checks belongs to a document that passed.
C19_ChecksBeforeDownload ==
    [][\A t \in Threads :
         /\ DocumentStep(t) =>
              LET document == task'[t].document IN
              /\ ~document.txt =>
                   task'[t].pc = "done" /\ task'[t].reply.kind = "not_txt"
              /\ (document.txt /\ document.file_size > MaxFileSize) =>
                   task'[t].pc = "done" /\ task'[t].reply.kind = "too_large"
              /\ Passes(document) => task'[t].pc = "hd_download"
              /\ user_contexts' = user_contexts
              /\ disk' = disk
              /\ task'[t].card_numbers = <<>>
              /\ task'[t].prefix = <<>>
              /\ task'[t].matching_cards = <<>>
         /\ (task[t].handler = "handle_document" /\ ~Free(t)) => Passes(task[t].document)]_vars

\* C19, witness: a document that fails both checks, from an actor with a
\* pending request, got the file-type rejection and the request is still
\* pending
C19_Witness ==
    \E t \in Threads :
        /\ UploadDone(t)
        /\ ~task[t].document.txt
        /\ task[t].document.file_size > MaxFileSize
        /\ task[t].reply.kind = "not_txt"
        /\ task[t].awaiting
        /\ task[t].user_id \in DOMAIN user_contexts

=============================================================================
